---- MODULE Spec2Model ----
(***************************************************************************)
(* Model of HezbollahDataIntegrator (initial-review/data_integration_      *)
(* toolkit.py): name normalisation, the name index, exact and fuzzy        *)
(* matching, profile assembly and batch resolution.                        *)
(*                                                                         *)
(* Python values are represented as follows.                               *)
(*   str            a sequence of one-character strings                    *)
(*   NaN / None     the sequence NaN (a missing cell, pd.isna is true)     *)
(*   x or None      the set {x}, or {} for None                            *)
(*   dict / row     a function from column names to values                 *)
(*   list / frame   a sequence                                             *)
(***************************************************************************)
EXTENDS Integers, Sequences, FiniteSets, TLC

VARIABLES entities, aliases, addresses, ids, name_index, pc, op, args, ret

vars == <<entities, aliases, addresses, ids, name_index, pc, op, args, ret>>

tables == <<entities, aliases, addresses, ids, name_index>>

(***************************************************************************)
(* Bounds of the model.                                                    *)
(***************************************************************************)
MaxLen == 5
MaxEntities == 2
MaxAliases == 1
MaxBatch == 2
MaxResolveEntities == 1

(***************************************************************************)
(* Characters and strings.                                                 *)
(***************************************************************************)
NaN == <<"NaN">>

None == {}

Some(x) == {x}

UpperOf ==
  [a |-> "A", b |-> "B", c |-> "C", d |-> "D", e |-> "E", f |-> "F", g |-> "G",
   h |-> "H", i |-> "I", j |-> "J", k |-> "K", l |-> "L", m |-> "M", n |-> "N",
   o |-> "O", p |-> "P", q |-> "Q", r |-> "R", s |-> "S", t |-> "T", u |-> "U",
   v |-> "V", w |-> "W", x |-> "X", y |-> "Y", z |-> "Z"]

\* Lower-case characters that have no upper-case form: str.upper() leaves them
\* as they are, str.islower() is true of them and \w accepts them.
NoUpperChars == {"ª"}

\* The characters str.islower() is true of.
LowerChars == DOMAIN UpperOf \cup NoUpperChars

UpperChars == {UpperOf[c] : c \in DOMAIN UpperOf}

Digits == {"0", "1", "2", "3", "4", "5", "6", "7", "8", "9"}

\* The characters the regular expression class \w accepts.
WordChars == LowerChars \cup UpperChars \cup Digits \cup {"_"}

\* The characters str.split() and str.strip() treat as whitespace.
SpaceChars == {" ", "\t", "\n"}

Max(a, b) == IF a >= b THEN a ELSE b

\* pd.isna(x) / not pd.notna(x)
isna(x) == x = NaN

\* str(x), and the formatting of x inside an f-string: a missing cell prints
\* as "nan".
str(x) == IF isna(x) THEN <<"n", "a", "n">> ELSE x

\* str.upper()
upper(s) == [i \in 1..Len(s) |-> IF s[i] \in DOMAIN UpperOf THEN UpperOf[s[i]] ELSE s[i]]

RECURSIVE lstrip(_)
lstrip(s) ==
  IF s # <<>> /\ Head(s) \in SpaceChars THEN lstrip(Tail(s)) ELSE s

RECURSIVE rstrip(_)
rstrip(s) ==
  IF s # <<>> /\ s[Len(s)] \in SpaceChars
    THEN rstrip(SubSeq(s, 1, Len(s) - 1))
    ELSE s

\* str.strip()
strip(s) == lstrip(rstrip(s))

\* ' '.join(s.split()): the words of s, separated by single spaces.  `pending`
\* records that whitespace was seen since the last character kept.
RECURSIVE JoinSplitFrom(_, _, _, _)
JoinSplitFrom(s, i, out, pending) ==
  IF i > Len(s) THEN out
  ELSE IF s[i] \in SpaceChars
    THEN JoinSplitFrom(s, i + 1, out, TRUE)
    ELSE JoinSplitFrom(s, i + 1,
           IF pending /\ out # <<>> THEN out \o <<" ", s[i]>> ELSE Append(out, s[i]),
           FALSE)

JoinSplit(s) == JoinSplitFrom(s, 1, <<>>, FALSE)

(***************************************************************************)
(* re.sub(r'\b(MR|MRS|MS|DR|PROF|SR|JR)\b\.?', '', name)                   *)
(***************************************************************************)
\* The alternatives of the group, in the order the pattern tries them.
Titles ==
  << <<"M", "R">>, <<"M", "R", "S">>, <<"M", "S">>, <<"D", "R">>,
     <<"P", "R", "O", "F">>, <<"S", "R">>, <<"J", "R">> >>

IsWordAt(s, i) == i >= 1 /\ i <= Len(s) /\ s[i] \in WordChars

\* \b holds in front of position i (1..Len(s)+1).
Boundary(s, i) == IsWordAt(s, i - 1) # IsWordAt(s, i)

LiteralAt(s, i, t) ==
  /\ i + Len(t) - 1 <= Len(s)
  /\ \A k \in 1..Len(t) : s[i + k - 1] = t[k]

\* The alternatives that match at i followed by \b.
AltsAt(s, i) ==
  {k \in 1..Len(Titles) : LiteralAt(s, i, Titles[k]) /\ Boundary(s, i + Len(Titles[k]))}

\* The position just after the match that starts at i, or 0 when the pattern
\* does not match at i.  The first alternative that lets the rest of the
\* pattern match is taken; \.? then takes a period when there is one.
MatchEnd(s, i) ==
  IF ~Boundary(s, i) \/ AltsAt(s, i) = {} THEN 0
  ELSE LET k == CHOOSE a \in AltsAt(s, i) : \A b \in AltsAt(s, i) : a <= b
           e == i + Len(Titles[k])
       IN  IF e <= Len(s) /\ s[e] = "." THEN e + 1 ELSE e

\* Leftmost non-overlapping matches are dropped, everything else is kept.
RECURSIVE SubTitlesFrom(_, _, _)
SubTitlesFrom(s, i, out) ==
  IF i > Len(s) THEN out
  ELSE IF MatchEnd(s, i) # 0
    THEN SubTitlesFrom(s, MatchEnd(s, i), out)
    ELSE SubTitlesFrom(s, i + 1, Append(out, s[i]))

SubTitles(s) == SubTitlesFrom(s, 1, <<>>)

\* A variant that only strips the ends and leaves runs of whitespace inside
\* the name as they are.
normalize_name_StripOnly(name) ==
  IF isna(name) THEN <<>>
  ELSE strip(SubTitles(upper(str(name))))

\* A variant that removes the titles before upper-casing, so that a title
\* written in lower case survives.
normalize_name_UpperLast(name) ==
  IF isna(name) THEN <<>>
  ELSE upper(JoinSplit(SubTitles(str(name))))

normalize_name(name) ==
  IF isna(name) THEN <<>>
  ELSE JoinSplit(SubTitles(upper(str(name))))

(***************************************************************************)
(* The reference tables (hezbollah_*.csv) the constructor loads.  A cell   *)
(* that is empty in the CSV file is NaN.                                   *)
(***************************************************************************)
sAli == <<"A", "l", "i">>

sAliLower == <<"a", "l", "i">>

sDr == <<"D", "r">>

sHassan == <<"H", "a", "s", "s", "a", "n">>

sHassanLower == <<"h", "a", "s", "s", "a", "n">>

sHasan == <<"H", "a", "s", "a", "n">>

sHasanLower == <<"h", "a", "s", "a", "n">>

sHussein == <<"H", "u", "s", "s", "e", "i", "n">>

sHassen == <<"H", "a", "s", "s", "e", "n">>

sHasson == <<"H", "a", "s", "s", "o", "n">>

sUnrelatedPerson ==
  <<"U", "n", "r", "e", "l", "a", "t", "e", "d", " ", "P", "e", "r", "s", "o", "n">>

sLebanon == <<"L", "e", "b", "a", "n", "o", "n">>

sColombia == <<"C", "o", "l", "o", "m", "b", "i", "a">>

sBeirut == <<"B", "e", "i", "r", "u", "t">>

sPassport == <<"P", "a", "s", "s", "p", "o", "r", "t">>

sCedula == <<"C", "e", "d", "u", "l", "a">>

EntityPool ==
  { [uid |-> 100, first_name |-> sAli, last_name |-> sHassan],
    [uid |-> 0,   first_name |-> NaN,  last_name |-> sHasan],
    [uid |-> 42,  first_name |-> sDr,  last_name |-> sAli] }

AliasPool ==
  { [entity_uid |-> 100, aka_uid |-> 1, first_name |-> sAli, last_name |-> sHasan],
    [entity_uid |-> 42,  aka_uid |-> 2, first_name |-> sAliLower, last_name |-> sHassanLower] }

\* Address and identity-document tables: empty ones, and ones whose rows for
\* uid 100 are interleaved with rows of a uid (7) that has no entity.
AddressTables ==
  { <<>>,
    << [entity_uid |-> 100, address_uid |-> 1, city |-> sBeirut, country |-> sLebanon],
       [entity_uid |-> 7,   address_uid |-> 2, city |-> NaN,     country |-> sColombia],
       [entity_uid |-> 100, address_uid |-> 3, city |-> NaN,     country |-> sColombia],
       [entity_uid |-> 42,  address_uid |-> 4, city |-> NaN,     country |-> NaN] >> }

IdTables ==
  { <<>>,
    << [entity_uid |-> 7,   id_uid |-> 1, id_type |-> sPassport, id_number |-> <<"P", "7">>],
       [entity_uid |-> 100, id_uid |-> 2, id_type |-> sPassport, id_number |-> <<"P", "1">>],
       [entity_uid |-> 0,   id_uid |-> 3, id_type |-> sCedula,   id_number |-> <<"9", "9">>],
       [entity_uid |-> 100, id_uid |-> 4, id_type |-> sCedula,   id_number |-> <<"1", "2">>] >> }

\* Entity rows whose names collide or nearly collide: entity 7 is composed to
\* the key of entity 100, and the key of entity 8 is as far from "ALI HASSEN"
\* as the key of entity 100 is.
CollidingEntityPool ==
  { [uid |-> 100, first_name |-> sAli,      last_name |-> sHassan],
    [uid |-> 7,   first_name |-> sAliLower, last_name |-> sHassanLower],
    [uid |-> 8,   first_name |-> sAli,      last_name |-> sHasson] }

SeqsUpTo(S, lo, hi) == UNION {[1..n -> S] : n \in lo..hi}

(***************************************************************************)
(* _build_name_index.  A dict is a sequence of [name, uid] entries with    *)
(* distinct names, in insertion order: assigning to a key that is already  *)
(* there replaces its value and keeps its place.                           *)
(***************************************************************************)
DictKeys(d) == {d[i].name : i \in 1..Len(d)}

\* A variant that leaves a key that is already there alone, as
\* d.setdefault(key, value) does: the first row of a name wins.
DictSetDefault(d, key, value) ==
  IF key \in DictKeys(d)
    THEN d
    ELSE Append(d, [name |-> key, uid |-> value])

\* d[key] = value
DictSet(d, key, value) ==
  IF key \in DictKeys(d)
    THEN [i \in 1..Len(d) |-> IF d[i].name = key THEN [name |-> key, uid |-> value] ELSE d[i]]
    ELSE Append(d, [name |-> key, uid |-> value])

\* d.get(key)
DictGet(d, key) == {d[i].uid : i \in {j \in 1..Len(d) : d[j].name = key}}

\* f"{row['first_name'] if pd.notna(row['first_name']) else ''} {row['last_name']}"
FullName(row) ==
  (IF ~isna(row.first_name) THEN row.first_name ELSE <<>>) \o <<" ">> \o str(row.last_name)

\* The key recorded for a row: full_name.strip().upper()
IndexKey(row) == upper(strip(FullName(row)))

RECURSIVE IndexEntities(_, _, _)
IndexEntities(names, ents, i) ==
  IF i > Len(ents) THEN names
  ELSE IndexEntities(DictSet(names, IndexKey(ents[i]), ents[i].uid), ents, i + 1)

RECURSIVE IndexAliases(_, _, _)
IndexAliases(names, als, i) ==
  IF i > Len(als) THEN names
  ELSE IndexAliases(DictSet(names, IndexKey(als[i]), als[i].entity_uid), als, i + 1)

_build_name_index(ents, als) == IndexAliases(IndexEntities(<<>>, ents, 1), als, 1)

(***************************************************************************)
(* fuzz.ratio(s1, s2) of fuzzywuzzy: 100 for equal strings, 0 when one of  *)
(* them is empty, otherwise round(100 * 2 * M / T), M the number of        *)
(* matching characters (a longest common subsequence) and T the total      *)
(* length; round() is Python's, which rounds halves to even.               *)
(***************************************************************************)
\* The row of the longest-common-subsequence table for one more character c
\* of the first string, from the row `prev` before it: position j holds the
\* length for the first j characters of b.  The best subsequence that ends in
\* c uses the last occurrence of c in b[1..j].
LcsRow(prev, c, b) ==
  [j \in 1..Len(b) |->
     LET hits == {k \in 1..j : b[k] = c}
         last == CHOOSE k \in hits : \A h \in hits : h <= k
     IN  IF hits = {} THEN prev[j]
         ELSE Max(prev[j], 1 + (IF last = 1 THEN 0 ELSE prev[last - 1]))] \o <<>>

RECURSIVE LcsRows(_, _, _, _)
LcsRows(a, b, i, prev) ==
  IF i > Len(a) THEN prev
  ELSE LcsRows(a, b, i + 1, LcsRow(prev, a[i], b))

Lcs(a, b) ==
  IF Len(b) = 0 THEN 0
  ELSE LcsRows(a, b, 1, [j \in 1..Len(b) |-> 0])[Len(b)]

\* int(round(num / den)) for num >= 0, den > 0
RoundDiv(num, den) ==
  LET q == num \div den
      r == num % den
  IN  IF 2 * r < den THEN q
      ELSE IF 2 * r > den THEN q + 1
      ELSE IF q % 2 = 0 THEN q ELSE q + 1

\* A variant that divides the matching characters by the length of the longer
\* string instead of twice by the total length.
ratio_LongerLength(s1, s2) ==
  IF s1 = s2 THEN 100
  ELSE IF Len(s1) = 0 \/ Len(s2) = 0 THEN 0
  ELSE RoundDiv(100 * Lcs(s1, s2), Max(Len(s1), Len(s2)))

ratio(s1, s2) ==
  IF s1 = s2 THEN 100
  ELSE IF Len(s1) = 0 \/ Len(s2) = 0 THEN 0
  ELSE RoundDiv(200 * Lcs(s1, s2), Len(s1) + Len(s2))

(***************************************************************************)
(* exact_match, fuzzy_match                                                *)
(***************************************************************************)
exact_match(index, name) == DictGet(index, normalize_name(name))

\* The matches in index order, before sorting.
RECURSIVE FuzzyScan(_, _, _, _, _)
FuzzyScan(index, name, threshold, i, matches) ==
  IF i > Len(index) THEN matches
  ELSE LET score == ratio(normalize_name(name), index[i].name)
       IN  FuzzyScan(index, name, threshold, i + 1,
             IF score >= threshold
               THEN Append(matches, [uid |-> index[i].uid, ofac_name |-> index[i].name,
                                     input_name |-> name, match_score |-> score])
               ELSE matches)

\* sorted(matches, key=match_score, reverse=True): a stable sort, so equal
\* scores keep their order.  Insertion of m behind every element that does not
\* score less.
\* A variant that puts m in front of the elements of its own score, as sorting
\* by rising score and reversing the list does: equal scores come out in
\* reverse index order.
RECURSIVE InsertByScoreReversed(_, _)
InsertByScoreReversed(sorted, m) ==
  IF sorted = <<>> THEN <<m>>
  ELSE IF Head(sorted).match_score > m.match_score
    THEN <<Head(sorted)>> \o InsertByScoreReversed(Tail(sorted), m)
    ELSE <<m>> \o sorted

RECURSIVE InsertByScore(_, _)
InsertByScore(sorted, m) ==
  IF sorted = <<>> THEN <<m>>
  ELSE IF Head(sorted).match_score >= m.match_score
    THEN <<Head(sorted)>> \o InsertByScore(Tail(sorted), m)
    ELSE <<m>> \o sorted

RECURSIVE SortByScore(_, _, _)
SortByScore(matches, i, sorted) ==
  IF i > Len(matches) THEN sorted
  ELSE SortByScore(matches, i + 1, InsertByScore(sorted, matches[i]))

\* A variant whose comparison is reversed: it keeps the scores below the
\* threshold.
fuzzy_match_Below(index, name, threshold) ==
  SortByScore(
    SelectSeq([i \in 1..Len(index) |->
                 [uid |-> index[i].uid, ofac_name |-> index[i].name, input_name |-> name,
                  match_score |-> ratio(normalize_name(name), index[i].name)]],
              LAMBDA m : m.match_score <= threshold),
    1, <<>>)

fuzzy_match(index, name, threshold) ==
  SortByScore(FuzzyScan(index, name, threshold, 1, <<>>), 1, <<>>)

(***************************************************************************)
(* search_by_location, search_by_id.  Series.str.contains(pat, case=False, *)
(* na=False) is modelled for patterns without regular-expression           *)
(* metacharacters: a case-insensitive substring test that is false on a    *)
(* missing cell.  A pattern that is not a string (NaN) makes re.compile    *)
(* raise TypeError.                                                        *)
(***************************************************************************)
IsSubstring(needle, hay) ==
  \E i \in 1..(Len(hay) - Len(needle) + 1) : SubSeq(hay, i, i + Len(needle) - 1) = needle

contains(cell, pat) == ~isna(cell) /\ IsSubstring(upper(pat), upper(cell))

\* The truth value of an optional string argument: None and '' are false.
Truthy(x) == x # None /\ x # Some(<<>>)

Value(x) == CHOOSE v \in x : TRUE

\* The result of a call: the value returned, or the exception raised.
Returned(v) == [exc |-> "", val |-> v]

Raised(e) == [exc |-> e, val |-> <<>>]

search_by_location(addrs, country, city) ==
  IF (Truthy(country) /\ isna(Value(country))) \/ (Truthy(city) /\ isna(Value(city)))
    THEN Raised("TypeError")
  ELSE LET byCountry == IF Truthy(country)
                          THEN SelectSeq(addrs, LAMBDA r : contains(r.country, Value(country)))
                          ELSE addrs
           byCity    == IF Truthy(city)
                          THEN SelectSeq(byCountry, LAMBDA r : contains(r.city, Value(city)))
                          ELSE byCountry
       IN  Returned(byCity)

search_by_id(idrows, id_number, id_type) ==
  IF Truthy(id_type) /\ isna(Value(id_type))
    THEN Raised("TypeError")
  ELSE LET byNumber == IF Truthy(id_number)
                         THEN SelectSeq(idrows, LAMBDA r : contains(r.id_number, str(Value(id_number))))
                         ELSE idrows
           byType   == IF Truthy(id_type)
                         THEN SelectSeq(byNumber, LAMBDA r : contains(r.id_type, Value(id_type)))
                         ELSE byNumber
       IN  Returned(byType)

(***************************************************************************)
(* get_entity_profile.  The uid argument is an int, [type |-> "int",       *)
(* number |-> n], or a str, [type |-> "str", text |-> s].                  *)
(***************************************************************************)
DigitValue(c) == CHOOSE n \in 0..9 : <<"0", "1", "2", "3", "4", "5", "6", "7", "8", "9">>[n + 1] = c

RECURSIVE DigitsValue(_, _, _)
DigitsValue(s, i, acc) ==
  IF i > Len(s) THEN acc
  ELSE IF s[i] = "_" THEN DigitsValue(s, i + 1, acc)
  ELSE DigitsValue(s, i + 1, 10 * acc + DigitValue(s[i]))

\* The digits of an integer literal: digits, with single underscores between.
IsDigits(s) ==
  /\ s # <<>>
  /\ s[1] \in Digits /\ s[Len(s)] \in Digits
  /\ \A i \in 1..Len(s) : s[i] \in Digits \cup {"_"}
  /\ \A i \in 1..(Len(s) - 1) : ~(s[i] = "_" /\ s[i + 1] = "_")

\* int(s): {n}, or {} when int raises ValueError.
int(s) ==
  LET t    == strip(s)
      sign == IF t # <<>> /\ t[1] = "-" THEN -1 ELSE 1
      body == IF t # <<>> /\ t[1] \in {"-", "+"} THEN Tail(t) ELSE t
  IN  IF IsDigits(body) THEN {sign * DigitsValue(body, 1, 0)} ELSE {}

\* A variant that joins the aliases on the alias's own key (aka_uid) and the
\* other tables on their row keys.
RowsOfByRowKey(frame, uid) ==
  SelectSeq(frame, LAMBDA r :
    IF "aka_uid" \in DOMAIN r THEN r.aka_uid = uid
    ELSE IF "address_uid" \in DOMAIN r THEN r.address_uid = uid
    ELSE r.id_uid = uid)

\* frame[frame[column] == uid].to_dict('records')
RowsOf(frame, uid) == SelectSeq(frame, LAMBDA r : r.entity_uid = uid)

\* A variant that assembles a profile without looking for the entity row.
ProfileOfNoEntityCheck(ents, als, addrs, idrows, uid) ==
  Returned(Some([uid |-> uid,
                 basic_info |-> IF \E i \in 1..Len(ents) : ents[i].uid = uid
                                  THEN SelectSeq(ents, LAMBDA r : r.uid = uid)[1]
                                  ELSE << >>,
                 aliases |-> RowsOf(als, uid),
                 addresses |-> RowsOf(addrs, uid),
                 ids |-> RowsOf(idrows, uid)]))

ProfileOf(ents, als, addrs, idrows, uid) ==
  LET entity_df == SelectSeq(ents, LAMBDA r : r.uid = uid)
  IN  IF Len(entity_df) = 0 THEN Returned(None)
      ELSE Returned(Some([uid |-> uid,
                          basic_info |-> entity_df[1],
                          aliases |-> RowsOf(als, uid),
                          addresses |-> RowsOf(addrs, uid),
                          ids |-> RowsOf(idrows, uid)]))

\* A variant without the conversion of a string: the string is compared with
\* the numbers of the uid column, equals none of them, and no entity is found.
get_entity_profile_NoConversion(ents, als, addrs, idrows, uid) ==
  IF uid.type = "str"
    THEN Returned(None)
    ELSE ProfileOf(ents, als, addrs, idrows, uid.number)

get_entity_profile(ents, als, addrs, idrows, uid) ==
  IF uid.type = "str"
    THEN IF int(uid.text) = {} THEN Raised("ValueError")
         ELSE ProfileOf(ents, als, addrs, idrows, Value(int(uid.text)))
    ELSE ProfileOf(ents, als, addrs, idrows, uid.number)

(***************************************************************************)
(* batch_search_names, process_new_source                                  *)
(***************************************************************************)
DefaultThreshold == 85

NewSourceThreshold == 80

MediumAbove == 85

\* The truth value of what exact_match returns: None and 0 are false.
TruthyUid(u) == u # None /\ u # Some(0)

\* The loop of batch_search_names from the i-th name on; `results` is the list
\* built so far.  A name that has no exact match is given no row when `fuzzy`
\* is false.
RECURSIVE BatchRows(_, _, _, _, _, _)
BatchRows(index, names_list, fuzzy, threshold, i, results) ==
  IF i > Len(names_list) THEN results
  ELSE LET name == names_list[i]
           uid  == exact_match(index, name)
           fuzzy_matches == fuzzy_match(index, name, threshold)
       IN  IF TruthyUid(uid)
             THEN BatchRows(index, names_list, fuzzy, threshold, i + 1,
                    Append(results, [input_name |-> name, match_type |-> "exact",
                                     uid |-> uid, match_score |-> 100]))
           ELSE IF fuzzy
             THEN IF fuzzy_matches # <<>>
               THEN BatchRows(index, names_list, fuzzy, threshold, i + 1,
                      Append(results, [input_name |-> name, match_type |-> "fuzzy",
                                       uid |-> Some(fuzzy_matches[1].uid),
                                       ofac_name |-> fuzzy_matches[1].ofac_name,
                                       match_score |-> fuzzy_matches[1].match_score]))
               ELSE BatchRows(index, names_list, fuzzy, threshold, i + 1,
                      Append(results, [input_name |-> name, match_type |-> "no_match",
                                       uid |-> None, match_score |-> 0]))
           ELSE BatchRows(index, names_list, fuzzy, threshold, i + 1, results)

batch_search_names(index, names_list, fuzzy, threshold) ==
  Returned(BatchRows(index, names_list, fuzzy, threshold, 1, <<>>))

\* A variant whose row for a name without any match is filled in the way
\* batch_search_names fills it: with a uid of None and a score of 0.
NameFieldsNoneFilled(index, name) ==
  LET uid   == exact_match(index, name)
      fuzzy == fuzzy_match(index, name, NewSourceThreshold)
  IN  IF TruthyUid(uid)
        THEN [ofac_match |-> "exact", ofac_uid |-> uid, confidence |-> "high"]
      ELSE IF fuzzy # <<>>
        THEN [ofac_match |-> "fuzzy", ofac_uid |-> Some(fuzzy[1].uid),
              match_score |-> fuzzy[1].match_score,
              confidence |-> IF fuzzy[1].match_score > MediumAbove THEN "medium" ELSE "low"]
      ELSE [ofac_match |-> "none", ofac_uid |-> None, match_score |-> 0,
            confidence |-> "new_entity"]

\* A variant that takes the last of the sorted fuzzy matches, the one that
\* scores least, instead of the first.
NameFieldsWorstMatch(index, name) ==
  LET uid   == exact_match(index, name)
      fuzzy == fuzzy_match(index, name, NewSourceThreshold)
  IN  IF TruthyUid(uid)
        THEN [ofac_match |-> "exact", ofac_uid |-> uid, confidence |-> "high"]
      ELSE IF fuzzy # <<>>
        THEN [ofac_match |-> "fuzzy", ofac_uid |-> Some(fuzzy[Len(fuzzy)].uid),
              match_score |-> fuzzy[Len(fuzzy)].match_score,
              confidence |-> IF fuzzy[Len(fuzzy)].match_score > MediumAbove
                               THEN "medium" ELSE "low"]
      ELSE [ofac_match |-> "none", confidence |-> "new_entity"]

\* The name-matching fields of one result row of process_new_source.
NameFields(index, name) ==
  LET uid   == exact_match(index, name)
      fuzzy == fuzzy_match(index, name, NewSourceThreshold)
  IN  IF TruthyUid(uid)
        THEN [ofac_match |-> "exact", ofac_uid |-> uid, confidence |-> "high"]
      ELSE IF fuzzy # <<>>
        THEN [ofac_match |-> "fuzzy", ofac_uid |-> Some(fuzzy[1].uid),
              match_score |-> fuzzy[1].match_score,
              confidence |-> IF fuzzy[1].match_score > MediumAbove THEN "medium" ELSE "low"]
      ELSE [ofac_match |-> "none", confidence |-> "new_entity"]

\* `column and column in row`; a column name is None or a string, and None and
\* '' are false.
HasColumn(row, column) == column # None /\ column # Some("") /\ Value(column) \in DOMAIN row

\* A variant that reads the requested column without testing for it: a column
\* the row does not have raises KeyError.
SourceRowStrict(index, addrs, idx, row, name_column, location_column) ==
  IF \/ (name_column # None /\ Value(name_column) \notin DOMAIN row)
     \/ (location_column # None /\ Value(location_column) \notin DOMAIN row)
    THEN Raised("KeyError")
  ELSE LET base    == [source_row |-> idx]
           named   == IF HasColumn(row, name_column)
                        THEN NameFields(index, row[Value(name_column)]) @@ base
                        ELSE base
           located == IF HasColumn(row, location_column)
                        THEN search_by_location(addrs, Some(row[Value(location_column)]), None)
                        ELSE Returned(<<>>)
       IN  IF located.exc # "" THEN located
           ELSE IF Len(located.val) > 0
             THEN Returned([location_matches |-> Len(located.val)] @@ named)
             ELSE Returned(named)

\* A variant that hands the location to the city filter of search_by_location
\* instead of the country filter.
SourceRowByCity(index, addrs, idx, row, name_column, location_column) ==
  LET base    == [source_row |-> idx]
      named   == IF HasColumn(row, name_column)
                   THEN NameFields(index, row[Value(name_column)]) @@ base
                   ELSE base
      located == IF HasColumn(row, location_column)
                   THEN search_by_location(addrs, None, Some(row[Value(location_column)]))
                   ELSE Returned(<<>>)
  IN  IF located.exc # "" THEN located
      ELSE IF Len(located.val) > 0
        THEN Returned([location_matches |-> Len(located.val)] @@ named)
        ELSE Returned(named)

\* One iteration of the loop of process_new_source: the result row for the
\* source row with index idx, or the exception the location search raises.
SourceRow(index, addrs, idx, row, name_column, location_column) ==
  LET base    == [source_row |-> idx]
      named   == IF HasColumn(row, name_column)
                   THEN NameFields(index, row[Value(name_column)]) @@ base
                   ELSE base
      located == IF HasColumn(row, location_column)
                   THEN search_by_location(addrs, Some(row[Value(location_column)]), None)
                   ELSE Returned(<<>>)
  IN  IF located.exc # "" THEN located
      ELSE IF Len(located.val) > 0
        THEN Returned([location_matches |-> Len(located.val)] @@ named)
        ELSE Returned(named)

RECURSIVE SourceRows(_, _, _, _, _, _, _)
SourceRows(index, addrs, frame, name_column, location_column, i, results) ==
  IF i > Len(frame) THEN Returned(results)
  ELSE LET r == SourceRow(index, addrs, i - 1, frame[i], name_column, location_column)
       IN  IF r.exc # "" THEN r
           ELSE SourceRows(index, addrs, frame, name_column, location_column, i + 1,
                           Append(results, r.val))

\* data is [type |-> "frame", rows |-> a sequence of rows] or
\* [type |-> "dict", row |-> one row]; a dict becomes a frame of one row.
process_new_source(index, addrs, data, name_column, location_column) ==
  LET frame == IF data.type = "dict" THEN <<data.row>> ELSE data.rows
  IN  SourceRows(index, addrs, frame, name_column, location_column, 1, <<>>)

(***************************************************************************)
(* The arguments the calls are made with.                                  *)
(***************************************************************************)
Space == <<" ">>

ScenarioNames ==
  << sAli \o Space \o sHassan, sAliLower \o Space \o sHasanLower,
     sAli \o Space \o sHussein, sUnrelatedPerson >>

QueryNames ==
  {ScenarioNames[i] : i \in 1..Len(ScenarioNames)}
    \cup {NaN, <<>>, sHasan, sAli \o Space \o sHassen}
    \cup {FullName(r) : r \in EntityPool} \cup {FullName(r) : r \in AliasPool}

\* The characters of the names normalize_name is tried on exhaustively.
NameChars == {"M", "R", "S", "D", "r", "ª", ".", " ", "-"}

BoundedNames == SeqsUpTo(NameChars, 0, MaxLen)

Thresholds == {70, NewSourceThreshold, DefaultThreshold}

BatchNames == {sAli \o Space \o sHassan, sAliLower \o Space \o sHasanLower, sHasan, NaN}

NamesLists ==
  SeqsUpTo(BatchNames, 0, MaxBatch) \cup {ScenarioNames, <<sAli \o Space \o sHassen>>}

sColombiaLower == <<"c", "o", "l", "o", "m", "b", "i", "a">>

SourceRowPool ==
  { [name |-> sAli \o Space \o sHassan, location |-> sColombiaLower],
    [name |-> NaN, location |-> sLebanon],
    [name |-> sHasan, location |-> NaN] }

ScenarioFrame == [i \in 1..Len(ScenarioNames) |-> [name |-> ScenarioNames[i]]]

SourceData ==
  {[type |-> "frame", rows |-> f] : f \in SeqsUpTo(SourceRowPool, 0, MaxBatch) \cup {ScenarioFrame}}
    \cup {[type |-> "dict", row |-> r] :
             r \in SourceRowPool \cup {[name |-> sAli \o Space \o sHassen, location |-> <<>>]}}

NameColumns == {None, Some("name"), Some("nombre")}

LocationColumns == {None, Some("location"), Some("lugar")}

UidArgs ==
  {[type |-> "int", number |-> n, text |-> <<>>] : n \in {0, 7, 42, 100}}
    \cup {[type |-> "str", number |-> 0, text |-> s] :
             s \in {<<"1", "0", "0">>, <<" ", "4", "2">>, <<"x">>}}

CountryArgs == {None, Some(<<>>), Some(sColombiaLower), Some(NaN)}

CityArgs == {None, Some(sBeirut)}

IdNumberArgs == {None, Some(<<"p">>)}

IdTypeArgs == {None, Some(sPassport), Some(NaN)}

(***************************************************************************)
(* The state after __init__: the tables are loaded and the index is built. *)
(***************************************************************************)
Constructed(ents, als, addrs, idrows) ==
  /\ entities = ents
  /\ aliases = als
  /\ addresses = addrs
  /\ ids = idrows
  /\ name_index = _build_name_index(ents, als)
  /\ pc = "idle"
  /\ op = ""
  /\ args = <<>>
  /\ ret = <<>>

Init ==
  \E ents \in SeqsUpTo(EntityPool, 0, MaxEntities), als \in SeqsUpTo(AliasPool, 0, MaxAliases),
     related \in {1, 2} :
    Constructed(ents, als,
                IF related = 1 THEN <<>> ELSE CHOOSE t \in AddressTables : t # <<>>,
                IF related = 1 THEN <<>> ELSE CHOOSE t \in IdTables : t # <<>>)

\* A variant in which search_by_location filters the address table in place
\* (no copy): the table is left holding the rows the search returned.
RespondFilteringInPlace(name, arguments, result) ==
  /\ pc' = "returned"
  /\ op' = name
  /\ args' = arguments
  /\ ret' = [exc |-> result.exc, val |-> name :> result.val]
  /\ addresses' = IF name = "search_by_location" /\ result.exc = ""
                    THEN result.val ELSE addresses
  /\ UNCHANGED <<entities, aliases, ids, name_index>>

\* The driver is handed the result of the call it made.  ret keeps the value
\* under the name of the operation, as results of different operations are
\* values of different types.
Respond(name, arguments, result) ==
  /\ pc' = "returned"
  /\ op' = name
  /\ args' = arguments
  /\ ret' = [exc |-> result.exc, val |-> name :> result.val]
  /\ UNCHANGED tables

\* normalize_name called with one of `names`.
NormalizeName(names) ==
  /\ pc = "idle"
  /\ \E name \in names :
       Respond("normalize_name", [name |-> name], Returned(normalize_name(name)))

ExactMatch ==
  /\ pc = "idle"
  /\ \E name \in QueryNames :
       Respond("exact_match", [name |-> name], Returned(exact_match(name_index, name)))

FuzzyMatch ==
  /\ pc = "idle"
  /\ \E name \in QueryNames, threshold \in Thresholds :
       Respond("fuzzy_match", [name |-> name, threshold |-> threshold],
               Returned(fuzzy_match(name_index, name, threshold)))

SearchByLocation ==
  /\ pc = "idle"
  /\ \E country \in CountryArgs, city \in CityArgs :
       Respond("search_by_location", [country |-> country, city |-> city],
               search_by_location(addresses, country, city))

SearchById ==
  /\ pc = "idle"
  /\ \E id_number \in IdNumberArgs, id_type \in IdTypeArgs :
       Respond("search_by_id", [id_number |-> id_number, id_type |-> id_type],
               search_by_id(ids, id_number, id_type))

GetEntityProfile ==
  /\ pc = "idle"
  /\ \E uid \in UidArgs :
       Respond("get_entity_profile", [uid |-> uid],
               get_entity_profile(entities, aliases, addresses, ids, uid))

BatchSearchNames ==
  /\ pc = "idle"
  /\ \E names_list \in NamesLists, fuzzy \in BOOLEAN,
        threshold \in {NewSourceThreshold, DefaultThreshold} :
       Respond("batch_search_names",
               [names_list |-> names_list, fuzzy |-> fuzzy, threshold |-> threshold],
               batch_search_names(name_index, names_list, fuzzy, threshold))

ProcessNewSource ==
  /\ pc = "idle"
  /\ \E data \in SourceData, name_column \in NameColumns,
        location_column \in LocationColumns :
       Respond("process_new_source",
               [data |-> data, name_column |-> name_column,
                location_column |-> location_column],
               process_new_source(name_index, addresses, data, name_column, location_column))

\* The driver takes the result and is ready for its next call.
Return ==
  /\ pc = "returned"
  /\ pc' = "idle"
  /\ op' = ""
  /\ args' = <<>>
  /\ ret' = <<>>
  /\ UNCHANGED tables

Next ==
  \/ NormalizeName(QueryNames)
  \/ ExactMatch
  \/ FuzzyMatch
  \/ SearchByLocation
  \/ SearchById
  \/ GetEntityProfile
  \/ BatchSearchNames
  \/ ProcessNewSource
  \/ Return

Spec == Init /\ [][Next]_vars

(***************************************************************************)
(* normalize_name as a pure function: one loaded data set, and every name  *)
(* of up to MaxLen characters of NameChars as the argument.                *)
(***************************************************************************)
InitNorm ==
  Constructed(<<[uid |-> 100, first_name |-> sAli, last_name |-> sHassan]>>,
              <<[entity_uid |-> 100, aka_uid |-> 1, first_name |-> sAli, last_name |-> sHasan]>>,
              <<>>, <<>>)

NextNorm ==
  \/ NormalizeName(BoundedNames \cup {NaN})
  \/ Return

SpecNorm == InitNorm /\ [][NextNorm]_vars

(***************************************************************************)
(* The name index and the matchers over tables whose names collide.        *)
(***************************************************************************)
InitIndex ==
  \E ents \in SeqsUpTo(CollidingEntityPool, 0, MaxEntities),
     als \in SeqsUpTo(AliasPool, 0, MaxAliases) :
    Constructed(ents, als, <<>>, <<>>)

NextIndex ==
  \/ ExactMatch
  \/ FuzzyMatch
  \/ Return

SpecIndex == InitIndex /\ [][NextIndex]_vars

(***************************************************************************)
(* Batch resolution on its own: batch_search_names and process_new_source  *)
(* over reference tables of up to MaxResolveEntities entities.             *)
(***************************************************************************)
InitResolve ==
  \E ents \in SeqsUpTo(EntityPool, 0, MaxResolveEntities),
     als \in SeqsUpTo(AliasPool, 0, MaxAliases), related \in {1, 2} :
    Constructed(ents, als,
                IF related = 1 THEN <<>> ELSE CHOOSE t \in AddressTables : t # <<>>,
                IF related = 1 THEN <<>> ELSE CHOOSE t \in IdTables : t # <<>>)

NextResolve ==
  \/ BatchSearchNames
  \/ ProcessNewSource
  \/ Return

SpecResolve == InitResolve /\ [][NextResolve]_vars

(***************************************************************************)
(* Properties                                                              *)
(***************************************************************************)
\* The call `o` has returned (or raised).
Called(o) == pc = "returned" /\ op = o

\* The result of the call that has returned.
Ret == [exc |-> ret.exc, val |-> ret.val[op]]

\* The names the rows of the reference tables are composed to.
ComposedNames ==
  {FullName(entities[i]) : i \in 1..Len(entities)}
    \cup {FullName(aliases[i]) : i \in 1..Len(aliases)}

\* C1: exact_match of the composed name "{first_name} {last_name}" of any
\* entity row or alias row returns a uid, never None, also when the name holds
\* a title or repeated whitespace.
C1_ExactMatchFindsEveryRow ==
  (Called("exact_match") /\ args.name \in ComposedNames) => Ret.val # None

\* The rows of a frame handed to process_new_source.
FrameOf(data) == IF data.type = "dict" THEN <<data.row>> ELSE data.rows

\* C2: batch resolution returns exactly one row per input, in input order,
\* whatever the fuzzy flag and the threshold: the i-th row of
\* batch_search_names carries the i-th name, and the i-th row of
\* process_new_source is the row of source row i.
C2_OneRowPerInput ==
  /\ Called("batch_search_names") =>
       /\ Len(Ret.val) = Len(args.names_list)
       /\ \A i \in 1..Len(Ret.val) : Ret.val[i].input_name = args.names_list[i]
  /\ (Called("process_new_source") /\ Ret.exc = "") =>
       /\ Len(Ret.val) = Len(FrameOf(args.data))
       /\ \A i \in 1..Len(Ret.val) : Ret.val[i].source_row = i - 1

\* C3: whenever exact_match finds a uid for an input name (uid 0 included) the
\* row of that name is an exact verdict with that uid: match_type exact and
\* score 100 in batch_search_names, ofac_match exact and confidence high in
\* process_new_source; the fuzzy matcher does not decide the row.
C3_ExactFoundIsExactVerdict ==
  /\ Called("batch_search_names") =>
       \A i \in 1..Len(args.names_list) :
         LET uid == exact_match(name_index, args.names_list[i])
         IN  uid # None =>
               \E j \in 1..Len(Ret.val) :
                 /\ Ret.val[j].input_name = args.names_list[i]
                 /\ Ret.val[j].match_type = "exact"
                 /\ Ret.val[j].uid = uid
                 /\ Ret.val[j].match_score = 100
  /\ (Called("process_new_source") /\ Ret.exc = "") =>
       \A i \in 1..Len(Ret.val) :
         LET row == FrameOf(args.data)[i]
         IN  HasColumn(row, args.name_column) =>
               LET uid == exact_match(name_index, row[Value(args.name_column)])
               IN  uid # None =>
                     /\ "ofac_match" \in DOMAIN Ret.val[i]
                     /\ Ret.val[i].ofac_match = "exact"
                     /\ Ret.val[i].ofac_uid = uid
                     /\ Ret.val[i].confidence = "high"

\* A column was asked for that a row of the source table does not have.
MissingColumn(data, column) ==
  column # None /\ \E i \in 1..Len(FrameOf(data)) : Value(column) \notin DOMAIN FrameOf(data)[i]

NameMatchFields == {"ofac_match", "ofac_uid", "match_score", "confidence"}

Scenario ==
  /\ entities = <<[uid |-> 100, first_name |-> sAli, last_name |-> sHassan]>>
  /\ aliases = <<[entity_uid |-> 100, aka_uid |-> 1, first_name |-> sAli, last_name |-> sHasan]>>

\* The scenario's names resolved by process_new_source (threshold 80).
ScenarioSource ==
  /\ Scenario
  /\ Called("process_new_source")
  /\ FrameOf(args.data) = ScenarioFrame
  /\ args.name_column = Some("name")
  /\ Ret.exc = ""

\* The scenario's names resolved by batch_search_names at threshold 80.
ScenarioBatch ==
  /\ Scenario
  /\ Called("batch_search_names")
  /\ args.names_list = ScenarioNames
  /\ args.fuzzy
  /\ args.threshold = 80

\* C5 as stated: the scenario's four names resolve to exact/100, exact/100,
\* fuzzy/100 with a score of at least 80, and none.
C5_ScenarioAsStated ==
  /\ ScenarioSource =>
       /\ Len(Ret.val) = 4
       /\ Ret.val[1].ofac_match = "exact" /\ Ret.val[1].ofac_uid = Some(100)
       /\ Ret.val[2].ofac_match = "exact" /\ Ret.val[2].ofac_uid = Some(100)
       /\ Ret.val[3].ofac_match = "fuzzy" /\ Ret.val[3].ofac_uid = Some(100)
       /\ Ret.val[3].match_score >= 80
       /\ Ret.val[4].ofac_match = "none"
  /\ ScenarioBatch =>
       /\ Len(Ret.val) = 4
       /\ Ret.val[1].match_type = "exact" /\ Ret.val[1].uid = Some(100)
       /\ Ret.val[2].match_type = "exact" /\ Ret.val[2].uid = Some(100)
       /\ Ret.val[3].match_type = "fuzzy" /\ Ret.val[3].uid = Some(100)
       /\ Ret.val[3].match_score >= 80
       /\ Ret.val[4].match_type = "no_match"

\* C5, amended: the scenario's four names resolve to exact/100, exact/100, none
\* and none.  "Ali Hussein" is no fuzzy match at threshold 80: its best score,
\* against "ALI HASSAN" of entity 100, is 76.
C5_Scenario ==
  /\ ScenarioSource =>
       /\ Len(Ret.val) = 4
       /\ Ret.val[1].ofac_match = "exact" /\ Ret.val[1].ofac_uid = Some(100)
       /\ Ret.val[2].ofac_match = "exact" /\ Ret.val[2].ofac_uid = Some(100)
       /\ Ret.val[3].ofac_match = "none" /\ Ret.val[3].confidence = "new_entity"
       /\ Ret.val[4].ofac_match = "none" /\ Ret.val[4].confidence = "new_entity"
  /\ ScenarioBatch =>
       /\ Len(Ret.val) = 4
       /\ Ret.val[1].match_type = "exact" /\ Ret.val[1].uid = Some(100)
       /\ Ret.val[2].match_type = "exact" /\ Ret.val[2].uid = Some(100)
       /\ Ret.val[3].match_type = "no_match" /\ Ret.val[3].uid = None
       /\ Ret.val[4].match_type = "no_match" /\ Ret.val[4].uid = None
  /\ (Scenario /\ Called("fuzzy_match") /\ args.name = ScenarioNames[3] /\ args.threshold = 70) =>
       /\ Len(Ret.val) = 2
       /\ Ret.val[1].uid = 100
       /\ Ret.val[1].ofac_name = upper(ScenarioNames[1])
       /\ Ret.val[1].match_score = 76

C5_Witness ==
  /\ ScenarioSource
  /\ Len(Ret.val) = 4
  /\ Ret.val[2].ofac_match = "exact"
  /\ Ret.val[3].ofac_match = "none"

\* The results of a fuzzy_match call as a set of (uid, matched name, score).
ResultSet(matches) ==
  {<<matches[i].uid, matches[i].ofac_name, matches[i].match_score>> : i \in 1..Len(matches)}

\* C6: fuzzy_match(name, T) returns no result that scores below T, and its
\* results are among the results of fuzzy_match(name, T1) for every lower
\* threshold T1.
C6_FuzzyThresholdMonotone ==
  Called("fuzzy_match") =>
    /\ \A i \in 1..Len(Ret.val) : Ret.val[i].match_score >= args.threshold
    /\ \A T1 \in Thresholds :
         T1 < args.threshold =>
           ResultSet(Ret.val) \subseteq ResultSet(fuzzy_match(name_index, args.name, T1))

C6_Witness ==
  /\ Called("fuzzy_match")
  /\ args.threshold = 85
  /\ Len(Ret.val) = 1
  /\ Len(fuzzy_match(name_index, args.name, 70)) = 2

\* The rows of `table` that belong to uid are exactly the rows of `result`, in
\* the order of the table: the k-th row of the result is the k-th row of the
\* table whose entity_uid is uid.
IsJoinOf(result, table, uid) ==
  LET own == {i \in 1..Len(table) : table[i].entity_uid = uid}
  IN  /\ Len(result) = Cardinality(own)
      /\ \A k \in 1..Len(result) :
           \E i \in own : Cardinality({j \in own : j <= i}) = k /\ result[k] = table[i]

\* The number a uid argument stands for: {n}, or {} for a string that is no
\* number.
UidNumber(uid) == IF uid.type = "str" THEN int(uid.text) ELSE {uid.number}

EntityUids == {entities[i].uid : i \in 1..Len(entities)}

\* C7: for a uid of the Entity table get_entity_profile returns a profile,
\* and its aliases, addresses and ids are exactly the rows of the Alias,
\* Address and IdentityDocument tables with that entity_uid, in table order.
C7_ProfileJoinsExactly ==
  (Called("get_entity_profile") /\ UidNumber(args.uid) \cap EntityUids # {}) =>
    /\ Ret.exc = ""
    /\ Ret.val # None
    /\ LET profile == Value(Ret.val)
           uid     == Value(UidNumber(args.uid))
       IN  /\ profile.uid = uid
           /\ profile.basic_info.uid = uid
           /\ IsJoinOf(profile.aliases, aliases, uid)
           /\ IsJoinOf(profile.addresses, addresses, uid)
           /\ IsJoinOf(profile.ids, ids, uid)

C7_Witness ==
  /\ Called("get_entity_profile")
  /\ UidNumber(args.uid) = {100}
  /\ Ret.val # None
  /\ Len(entities) = 2
  /\ Len(Value(Ret.val).aliases) = 1 /\ Len(aliases) = 1
  /\ Len(Value(Ret.val).addresses) = 2 /\ Len(addresses) = 4
  /\ Len(Value(Ret.val).ids) = 2 /\ Len(ids) = 4

\* C8: absence is a value, not an error.  normalize_name of a missing value is
\* the empty string; exact_match of a name that is no key of the index is
\* None; fuzzy_match of a name that no key matches at the threshold is the
\* empty list; get_entity_profile of a uid without an entity row is None, also
\* when other tables hold rows for that uid.
C8_AbsenceIsAValue ==
  /\ (Called("normalize_name") /\ isna(args.name)) => Ret = Returned(<<>>)
  /\ (Called("exact_match") /\ normalize_name(args.name) \notin DictKeys(name_index)) =>
       Ret = Returned(None)
  /\ (Called("fuzzy_match")
        /\ \A i \in 1..Len(name_index) :
             ratio(normalize_name(args.name), name_index[i].name) < args.threshold) =>
       Ret = Returned(<<>>)
  /\ (Called("get_entity_profile")
        /\ UidNumber(args.uid) # {} /\ UidNumber(args.uid) \cap EntityUids = {}) =>
       Ret = Returned(None)

C8_Witness ==
  /\ Called("get_entity_profile")
  /\ UidNumber(args.uid) = {42}
  /\ 42 \notin EntityUids
  /\ \E i \in 1..Len(aliases) : aliases[i].entity_uid = 42
  /\ \E i \in 1..Len(addresses) : addresses[i].entity_uid = 42
  /\ Ret = Returned(None)

\* C9: normalize_name is idempotent: normalising what it returned gives the
\* same string again.
C9_NormalizeIdempotent ==
  Called("normalize_name") => normalize_name(Ret.val) = Ret.val

C9_Witness ==
  /\ Called("normalize_name")
  /\ args.name = <<"D", "r", ".", " ", "R">>
  /\ Ret.val = <<"R">>
  /\ normalize_name(Ret.val) = <<"R">>

\* A title stands as a whole word at position i of s.
TitleWordAt(s, i) ==
  \E k \in 1..Len(Titles) :
    /\ LiteralAt(s, i, Titles[k])
    /\ ~IsWordAt(s, i - 1)
    /\ ~IsWordAt(s, i + Len(Titles[k]))

\* What is left of the canonical form when the clause about lower-case
\* letters is set aside: no whitespace at either end, no two whitespace
\* characters in a row, and no title standing as a whole word.
TrimmedAndTitleFree(s) ==
  /\ s # <<>> => (s[1] \notin SpaceChars /\ s[Len(s)] \notin SpaceChars)
  /\ \A i \in 1..(Len(s) - 1) : ~(s[i] \in SpaceChars /\ s[i + 1] \in SpaceChars)
  /\ \A i \in 1..Len(s) : ~TitleWordAt(s, i)

\* C10 as stated: what normalize_name returns is canonical: no lower-case
\* letter, no whitespace at either end, no two whitespace characters in a row,
\* and no title (MR, MRS, MS, DR, PROF, SR, JR) standing as a whole word, with
\* or without a period behind it.
C10_NormalizedIsCanonical ==
  Called("normalize_name") =>
    /\ \A i \in 1..Len(Ret.val) : Ret.val[i] \notin LowerChars
    /\ TrimmedAndTitleFree(Ret.val)

\* C10, amended: what normalize_name returns holds no character that has an
\* upper-case form of its own (a lower-case character without one, such as the
\* ordinal indicator of "Mª", stays as it is), no whitespace at either end, no
\* two whitespace characters in a row, and no title standing as a whole word.
C10_NormalizedIsUpperCased ==
  Called("normalize_name") =>
    /\ \A i \in 1..Len(Ret.val) : Ret.val[i] \notin DOMAIN UpperOf
    /\ TrimmedAndTitleFree(Ret.val)

C10_Witness ==
  /\ Called("normalize_name")
  /\ args.name = <<" ", "D", "r", " ", "ª">>
  /\ Ret.val = <<"ª">>

\* The scores of the keys of the index against a name, in index order.
ScoresOf(name) ==
  LET normalized == normalize_name(name)
  IN  [i \in 1..Len(name_index) |-> ratio(normalized, name_index[i].name)] \o <<>>

\* The score of the i-th key of the index against a name.
ScoreOf(name, i) == ScoresOf(name)[i]

\* The positions of the keys that score at least `threshold` against the name.
Scoring(name, threshold) ==
  LET scores == ScoresOf(name)
  IN  {i \in DOMAIN scores : scores[i] >= threshold}

\* The highest-scoring key, the first one in the index among equals.
Top(name, threshold) ==
  LET scores == ScoresOf(name)
      above  == {i \in DOMAIN scores : scores[i] >= threshold}
  IN  CHOOSE i \in above :
        \A j \in above : scores[j] < scores[i] \/ (scores[j] = scores[i] /\ i <= j)

\* exact_match finds nothing for the name and some key scores at least
\* `threshold` against it.
OnlyFuzzy(name, threshold) ==
  exact_match(name_index, name) = None /\ Scoring(name, threshold) # {}

Tier(score) == IF score > 85 THEN "medium" ELSE "low"

\* The fuzzy verdict of process_new_source for every row that has no exact
\* match and a key scoring at least 80.
FuzzySourceRows ==
  (Called("process_new_source") /\ Ret.exc = "") =>
    \A i \in 1..Len(Ret.val) :
      LET row == FrameOf(args.data)[i]
      IN  (HasColumn(row, args.name_column)
             /\ OnlyFuzzy(row[Value(args.name_column)], 80)) =>
            LET name  == row[Value(args.name_column)]
                top   == Top(name, 80)
                score == ScoreOf(name, top)
            IN  /\ "ofac_match" \in DOMAIN Ret.val[i]
                /\ Ret.val[i].ofac_match = "fuzzy"
                /\ Ret.val[i].ofac_uid = Some(name_index[top].uid)
                /\ Ret.val[i].match_score = score
                /\ Ret.val[i].confidence = Tier(score)

\* The fuzzy verdict of batch_search_names, fuzzy matching on, for every name
\* that has no exact match and a key scoring at least the caller's threshold;
\* `tiered` says whether the row carries a confidence.
FuzzyBatchRows(tiered) ==
  (Called("batch_search_names") /\ args.fuzzy) =>
    /\ Len(Ret.val) = Len(args.names_list)
    /\ \A i \in 1..Len(Ret.val) :
         OnlyFuzzy(args.names_list[i], args.threshold) =>
           LET name  == args.names_list[i]
               top   == Top(name, args.threshold)
               score == ScoreOf(name, top)
           IN  /\ Ret.val[i].match_type = "fuzzy"
               /\ Ret.val[i].uid = Some(name_index[top].uid)
               /\ Ret.val[i].match_score = score
               /\ IF tiered
                    THEN /\ "confidence" \in DOMAIN Ret.val[i]
                         /\ Ret.val[i].confidence = Tier(score)
                    ELSE /\ "confidence" \notin DOMAIN Ret.val[i]
                         /\ Ret.val[i].ofac_name = name_index[top].name

\* C11 as stated: in batch resolution a name that exact_match does not find
\* and fuzzy_match does is given a fuzzy verdict with the uid and the score of
\* the highest-scoring key, and a confidence: medium for a score above 85, low
\* for a score from the threshold to 85.
C11_FuzzyVerdictIsTiered ==
  FuzzySourceRows /\ FuzzyBatchRows(TRUE)

\* C11, amended: process_new_source, whose threshold is fixed at 80, gives
\* such a row the fuzzy verdict with the uid and the score of the
\* highest-scoring key and the confidence medium above 85, low from 80 to 85.
\* batch_search_names with fuzzy matching on gives such a name the fuzzy
\* verdict with the uid, the key and the score of the highest-scoring key at
\* the caller's threshold, and no confidence.
C11_FuzzyVerdict ==
  FuzzySourceRows /\ FuzzyBatchRows(FALSE)

C11_Witness ==
  /\ Called("process_new_source")
  /\ Ret.exc = ""
  /\ Len(name_index) = 2
  /\ args.data.type = "dict"
  /\ HasColumn(args.data.row, args.name_column)
  /\ Scoring(args.data.row.name, 80) = {1, 2}
  /\ Ret.val[1].ofac_match = "fuzzy"
  /\ Ret.val[1].match_score = 90

\* Neither exact_match nor fuzzy_match at `threshold` finds anything for the
\* name.
NothingFound(name, threshold) ==
  exact_match(name_index, name) = None /\ Scoring(name, threshold) = {}

Confidences == {"high", "medium", "low", "new_entity"}

\* The rows of process_new_source that were matched by name: the verdict is one
\* of exact, fuzzy, none, the confidence one of high, medium, low, new_entity,
\* and a row for which nothing is found is none / new_entity without a uid and
\* without a score.
SourceVerdicts ==
  (Called("process_new_source") /\ Ret.exc = "") =>
    \A i \in 1..Len(Ret.val) :
      LET row == FrameOf(args.data)[i]
      IN  HasColumn(row, args.name_column) =>
            /\ {"ofac_match", "confidence"} \subseteq DOMAIN Ret.val[i]
            /\ Ret.val[i].ofac_match \in {"exact", "fuzzy", "none"}
            /\ Ret.val[i].confidence \in Confidences
            /\ NothingFound(row[Value(args.name_column)], 80) =>
                 /\ Ret.val[i].ofac_match = "none"
                 /\ Ret.val[i].confidence = "new_entity"
                 /\ DOMAIN Ret.val[i] \cap {"ofac_uid", "match_score"} = {}

\* C12 as stated: every row of a batch-resolution result has a match_type of
\* exact, fuzzy or none and a confidence of high, medium, low or new_entity,
\* and a row for which nothing is found is none / new_entity with no uid and
\* no score.
C12_VerdictsAsStated ==
  /\ SourceVerdicts
  /\ Called("batch_search_names") =>
       \A j \in 1..Len(Ret.val) :
         /\ Ret.val[j].match_type \in {"exact", "fuzzy", "none"}
         /\ "confidence" \in DOMAIN Ret.val[j]
         /\ Ret.val[j].confidence \in Confidences
         /\ NothingFound(Ret.val[j].input_name, args.threshold) =>
              /\ Ret.val[j].match_type = "none"
              /\ Ret.val[j].confidence = "new_entity"
              /\ Ret.val[j].uid = None
              /\ "match_score" \notin DOMAIN Ret.val[j]

\* C12, amended: the rows process_new_source matches by name are as stated
\* (the verdict is the field ofac_match).  Every row of batch_search_names has
\* a match_type of exact, fuzzy or no_match and no confidence, and its row for
\* a name for which nothing is found has match_type no_match, uid None and
\* match_score 0.
C12_Verdicts ==
  /\ SourceVerdicts
  /\ Called("batch_search_names") =>
       \A j \in 1..Len(Ret.val) :
         /\ Ret.val[j].match_type \in {"exact", "fuzzy", "no_match"}
         /\ "confidence" \notin DOMAIN Ret.val[j]
         /\ NothingFound(Ret.val[j].input_name, args.threshold) =>
              /\ Ret.val[j].match_type = "no_match"
              /\ Ret.val[j].uid = None
              /\ Ret.val[j].match_score = 0

C12_Witness ==
  /\ Called("process_new_source")
  /\ Ret.exc = ""
  /\ Len(name_index) > 0
  /\ Len(Ret.val) = 2
  /\ HasColumn(FrameOf(args.data)[1], args.name_column)
  /\ NothingFound(FrameOf(args.data)[1].name, 80)
  /\ DOMAIN Ret.val[1] = {"source_row", "ofac_match", "confidence"}
  /\ Ret.val[2].ofac_match = "exact"

\* The uid argument n as an integer.
IntUid(n) == [type |-> "int", number |-> n, text |-> <<>>]

\* C13: get_entity_profile takes the uid as an integer or as a numeric string
\* and returns for the string what it returns for the integer of the same
\* number (the profile of that entity when there is one); a string that is no
\* number makes the call raise, it returns neither a profile nor None.
C13_UidIntOrNumericString ==
  (Called("get_entity_profile") /\ args.uid.type = "str") =>
    IF int(args.uid.text) = {}
      THEN Ret.exc # ""
      ELSE LET n == Value(int(args.uid.text))
           IN  /\ Ret.exc = ""
               /\ Ret = get_entity_profile(entities, aliases, addresses, ids, IntUid(n))
               /\ n \in EntityUids => (Ret.val # None /\ Value(Ret.val).uid = n)
               /\ n \notin EntityUids => Ret.val = None

C13_Witness ==
  /\ Called("get_entity_profile")
  /\ args.uid.type = "str"
  /\ args.uid.text = <<" ", "4", "2">>
  /\ 42 \in EntityUids
  /\ Ret.val # None
  /\ Value(Ret.val).uid = 42
  /\ Len(Value(Ret.val).addresses) = 1

\* C14: every key of the name index is a canonical name: the key recorded for
\* an entity row or an alias row is normalize_name of the row's composed name,
\* so that normalize_name(k) = k for every key k.
C14_KeysAreCanonical ==
  /\ \A i \in 1..Len(name_index) : normalize_name(name_index[i].name) = name_index[i].name
  /\ \A i \in 1..Len(entities) : normalize_name(FullName(entities[i])) \in DictKeys(name_index)
  /\ \A i \in 1..Len(aliases) : normalize_name(FullName(aliases[i])) \in DictKeys(name_index)

\* The rows in the order the index is built from them, all entities and then
\* all aliases, each with the key it is recorded under and the uid it records.
Writes ==
  [i \in 1..(Len(entities) + Len(aliases)) |->
     IF i <= Len(entities)
       THEN [key |-> IndexKey(entities[i]), uid |-> entities[i].uid]
       ELSE [key |-> IndexKey(aliases[i - Len(entities)]),
             uid |-> aliases[i - Len(entities)].entity_uid]]

\* The last row that is recorded under the key.
LastWrite(key) ==
  CHOOSE i \in DOMAIN Writes :
    Writes[i].key = key /\ \A j \in DOMAIN Writes : Writes[j].key = key => j <= i

\* C15: after construction every key of the index maps to the uid of the last
\* row that produced the key, in the order all entities, then all aliases: an
\* alias wins over an entity of the same key, and of two entities of the same
\* key the later one wins.  exact_match returns that uid.
C15_LastRowWins ==
  /\ DictKeys(name_index) = {Writes[i].key : i \in DOMAIN Writes}
  /\ \A e \in 1..Len(name_index) :
       /\ name_index[e].uid = Writes[LastWrite(name_index[e].name)].uid
       /\ \A f \in 1..Len(name_index) : name_index[e].name = name_index[f].name => e = f
  /\ (Called("exact_match") /\ normalize_name(args.name) \in DictKeys(name_index)) =>
       Ret.val = Some(Writes[LastWrite(normalize_name(args.name))].uid)

C15_Witness ==
  /\ Called("exact_match")
  /\ Len(entities) = 2 /\ Len(aliases) = 1
  /\ entities[1].uid = 7 /\ entities[2].uid = 100
  /\ IndexKey(entities[1]) = IndexKey(entities[2])
  /\ IndexKey(aliases[1]) = IndexKey(entities[1])
  /\ aliases[1].entity_uid = 42
  /\ normalize_name(args.name) = IndexKey(entities[1])
  /\ Ret.val = Some(42)

\* C16: no query changes the reference state: over every call (and the
\* hand-over of its result) the name index and the Entity, Alias, Address and
\* IdentityDocument tables stay what they were, so that they are what they were
\* right after construction and a repeated call, which computes its result
\* from them and its arguments alone, returns the same result.
C16_QueriesChangeNothing ==
  [][/\ tables' = tables
     /\ name_index' = _build_name_index(entities, aliases)]_vars

C16_Witness ==
  /\ Called("search_by_location")
  /\ Ret.exc = ""
  /\ Len(addresses) = 4
  /\ Len(Ret.val) = 2
  /\ name_index = _build_name_index(entities, aliases)
  /\ Len(name_index) > 0

\* The position of a key in the iteration order of the index.
KeyPosition(key) == CHOOSE i \in 1..Len(name_index) : name_index[i].name = key

\* C17: the list fuzzy_match returns is ordered by falling score, and results
\* of equal score stand in the order of their keys in the index.
C17_SortedByScoreStable ==
  Called("fuzzy_match") =>
    \A i, j \in 1..Len(Ret.val) :
      i < j =>
        \/ Ret.val[i].match_score > Ret.val[j].match_score
        \/ /\ Ret.val[i].match_score = Ret.val[j].match_score
           /\ KeyPosition(Ret.val[i].ofac_name) < KeyPosition(Ret.val[j].ofac_name)

C17_Witness ==
  /\ Called("fuzzy_match")
  /\ Len(Ret.val) = 3
  /\ Ret.val[1].match_score = Ret.val[2].match_score
  /\ Ret.val[1].uid = 8 /\ Ret.val[2].uid = 100
  /\ Ret.val[3].match_score < Ret.val[2].match_score
  /\ KeyPosition(Ret.val[3].ofac_name) = 3

\* A name that is empty or missing.
NoName(name) == isna(name) \/ name = <<>>

\* C18: a batch row whose name is empty or missing gets the none verdict
\* (no_match in batch_search_names, none / new_entity in process_new_source),
\* never an exact or a fuzzy one, whatever the tables hold, and it does not
\* abort the batch: the rows before and after it are returned with it.
C18_NoNameIsNoMatch ==
  /\ Called("batch_search_names") =>
       \A i \in 1..Len(args.names_list) :
         NoName(args.names_list[i]) =>
           /\ Ret.exc = ""
           /\ Len(Ret.val) = Len(args.names_list)
           /\ Ret.val[i].input_name = args.names_list[i]
           /\ Ret.val[i].match_type = "no_match"
           /\ Ret.val[i].uid = None
  /\ Called("process_new_source") =>
       \A i \in 1..Len(FrameOf(args.data)) :
         LET row == FrameOf(args.data)[i]
         IN  (HasColumn(row, args.name_column) /\ NoName(row[Value(args.name_column)])) =>
               IF Ret.exc = ""
                 THEN /\ Len(Ret.val) = Len(FrameOf(args.data))
                      /\ Ret.val[i].ofac_match = "none"
                      /\ Ret.val[i].confidence = "new_entity"
                 ELSE \E k \in 1..Len(FrameOf(args.data)) :
                        /\ HasColumn(FrameOf(args.data)[k], args.location_column)
                        /\ isna(FrameOf(args.data)[k][Value(args.location_column)])

\* The number of Address rows whose country contains the location, whatever
\* the case of the letters.
CountryCount(location) ==
  Cardinality({k \in 1..Len(addresses) :
                 /\ ~isna(addresses[k].country)
                 /\ IsSubstring(upper(location), upper(addresses[k].country))})

\* The row without the count of the location search.
WithoutCount(r) == [f \in DOMAIN r \ {"location_matches"} |-> r[f]]

\* The name-match fields of every row are what the call without the location
\* column returns for the row.
NameFieldsUntouched ==
  LET plain == process_new_source(name_index, addresses, args.data, args.name_column, None)
  IN  /\ Len(Ret.val) = Len(plain.val)
      /\ \A i \in 1..Len(Ret.val) : WithoutCount(Ret.val[i]) = plain.val[i]

\* The locations of the rows, when the call was given a location column that
\* every row has and that holds a string in every row.
Located ==
  /\ Called("process_new_source")
  /\ \A i \in 1..Len(FrameOf(args.data)) :
       /\ HasColumn(FrameOf(args.data)[i], args.location_column)
       /\ ~isna(FrameOf(args.data)[i][Value(args.location_column)])

\* C19 as stated: given a location column, every result row carries the number
\* of Address rows whose country contains the row's location, and its
\* name-match fields are those of the call without the location column.
C19_EveryRowCarriesCount ==
  Located =>
    /\ Ret.exc = ""
    /\ NameFieldsUntouched
    /\ \A i \in 1..Len(Ret.val) :
         /\ "location_matches" \in DOMAIN Ret.val[i]
         /\ Ret.val[i].location_matches =
              CountryCount(FrameOf(args.data)[i][Value(args.location_column)])

\* C19, amended: given a location column, a result row carries the number of
\* Address rows whose country contains the row's location only when that
\* number is not 0; a row whose location no country contains carries no
\* location_matches.  An empty location is not searched for and counts every
\* Address row, those without a country included.  The name-match fields are
\* those of the call without the location column.
C19_PositiveCountIsCarried ==
  Located =>
    /\ Ret.exc = ""
    /\ NameFieldsUntouched
    /\ \A i \in 1..Len(Ret.val) :
         LET location == FrameOf(args.data)[i][Value(args.location_column)]
             count    == IF location = <<>> THEN Len(addresses) ELSE CountryCount(location)
         IN  IF count = 0
               THEN "location_matches" \notin DOMAIN Ret.val[i]
               ELSE /\ "location_matches" \in DOMAIN Ret.val[i]
                    /\ Ret.val[i].location_matches = count

C19_Witness ==
  /\ Located
  /\ Len(addresses) = 4
  /\ Len(Ret.val) = 2
  /\ HasColumn(FrameOf(args.data)[1], args.name_column)
  /\ Ret.val[1].location_matches = 2
  /\ Ret.val[1].ofac_match = "exact"
  /\ Ret.val[2].location_matches = 1
  /\ Ret.val[2].ofac_match = "none"

====
